---- MODULE Spec2Model ----
(***************************************************************************)
(* Model of rideshre.cpp: Ride / StandardRide / PremiumRide with their     *)
(* polymorphic fare(), and the Driver and Rider collections of shared      *)
(* ride references.                                                        *)
(*                                                                         *)
(* Units.  The C++ doubles are modelled in fixed point:                    *)
(*   distance    tenths of a mile     (18.4 miles  -> 184)                 *)
(*   multiplier  tenths               (1.5         -> 15)                  *)
(*   money       mills, 1/1000 dollar ($28.60      -> 28600)               *)
(* so that every product of the fare formulas is an exact integer          *)
(* (2.5 $/mile * d/10 * m/10 * 1000 = 25*d*m).  A cent is 10 mills.        *)
(*                                                                         *)
(* A shared_ptr<Ride> is modelled as the index of the pointed-to object in *)
(* the heap `rides` (objects in order of construction); 0 is the null      *)
(* pointer.                                                                *)
(***************************************************************************)
EXTENDS Integers, Sequences, FiniteSets, TLC

VARIABLES
    nextID,          \* Ride::nextID, the static id generator
    rides,           \* heap of Ride objects, in order of construction
    allRides,        \* main's registry vector of every ride it made
    assignedRides,   \* Driver::assignedRides, per driver
    requestedRides,  \* Rider::requestedRides, per rider
    out,             \* the last call: its arguments and what it returned / printed
    addLog,          \* history: arguments of addRide per driver since its last clear
    reqLog           \* history: arguments of requestRide per rider

vars == <<nextID, rides, allRides, assignedRides, requestedRides, out, addLog, reqLog>>

progVars == <<nextID, rides, allRides, assignedRides, requestedRides>>

-----------------------------------------------------------------------------
(* Bounds of the model *)

MaxRides == 2        \* rides constructed in one run
MaxEntries == 2      \* references held by all drivers and riders together

(* Program constants, in the units above *)

nextID_init == 1             \* int Ride::nextID = 1
basePerMile == 100           \* Ride::fare: 1.0 $/mile, in mills per tenth of a mile
baseMinimum == 2000          \* Ride::fare: std::max(2.0, .)
perMile == 150               \* StandardRide::fare: 1.5 $/mile
bookingFee == 1000           \* StandardRide::fare: 1.0
standardMinimum == 3000      \* StandardRide::fare: std::max(3.0, .)
premiumPerMile == 25         \* PremiumRide::fare: 2.5 $/mile, per tenth of mile and tenth of multiplier
surge == 2000                \* PremiumRide::fare: 2.0
premiumMinimum == 10000      \* PremiumRide::fare: std::max(10.0, .)
defaultMultiplier == 20      \* PremiumRide::PremiumRide: multiplier = 2.0

NullRide == 0                \* an empty shared_ptr<Ride>

Drivers == {"driver1", "driver2"}
Riders == {"rider1"}

Kinds == {"Ride", "StandardRide", "PremiumRide"}

NoMultiplier == << >>         \* the multiplier argument left out (an optional value is <<m>> or << >>)

(* Constructor arguments used by the system specification: main's rides    *)
(* r1, r3 and r4, and a base Ride with a negative distance.                *)
RideInputs ==
    { [kind |-> "StandardRide", pickup |-> "Downtown", dropoff |-> "Airport",
       distance |-> 184, multiplier |-> NoMultiplier],
      [kind |-> "StandardRide", pickup |-> "Home", dropoff |-> "Office",
       distance |-> 45, multiplier |-> NoMultiplier],
      [kind |-> "PremiumRide", pickup |-> "Hotel", dropoff |-> "Convention Center",
       distance |-> 120, multiplier |-> NoMultiplier],
      [kind |-> "Ride", pickup |-> "Depot", dropoff |-> "Depot",
       distance |-> -10, multiplier |-> NoMultiplier] }

(* Constructor arguments used by the fare specification: every distance    *)
(* from -0.5 to 2.5 miles in tenths (both sides of each variant's floor),  *)
(* main's distances, and multipliers below, at and above zero.             *)
FareDistances == (-5 .. 25) \cup {-184, 45, 72, 120, 184}
FareMultipliers == {<<-15>>, <<-1>>, <<0>>, <<5>>, <<15>>, <<20>>, NoMultiplier}

FareInputs ==
    { [kind |-> k, pickup |-> "Mall", dropoff |-> "University",
       distance |-> d, multiplier |-> NoMultiplier] :
         k \in {"Ride", "StandardRide"}, d \in FareDistances }
    \cup
    { [kind |-> "PremiumRide", pickup |-> "Mall", dropoff |-> "University",
       distance |-> d, multiplier |-> m] :
         d \in FareDistances, m \in FareMultipliers }

-----------------------------------------------------------------------------
(* std::max and std::vector helpers *)

Max(a, b) == IF a < b THEN b ELSE a

(* push_back that drops an element the vector already holds *)
push_back_unique(v, e) ==
    IF \E i \in 1 .. Len(v) : v[i] = e THEN v ELSE Append(v, e)

push_back(v, e) == Append(v, e)

clear(v) == << >>

(* size that counts only the non-null entries *)
size_nonNull(v) == Cardinality({i \in 1 .. Len(v) : v[i] # 0})

size(v) == Len(v)

-----------------------------------------------------------------------------
(* Ride and its subclasses *)

(* Ride::Ride with the subclass constructors: the object built from the    *)
(* arguments, its id taken from the counter value `id`.                    *)
(* the id taken with ++nextID instead of nextID++ *)
Ride_Ride_preIncrement(id, in) ==
    [ kind |-> in.kind,
      rideID |-> id + 1,
      pickupLocation |-> in.pickup,
      dropoffLocation |-> in.dropoff,
      distanceMiles |-> in.distance ]

(* a constructor that clamps a negative distance to zero *)
Ride_Ride_clamped(id, in) ==
    [ kind |-> in.kind,
      rideID |-> id,
      pickupLocation |-> in.pickup,
      dropoffLocation |-> in.dropoff,
      distanceMiles |-> Max(0, in.distance) ]

Ride_Ride(id, in) ==
    [ kind |-> in.kind,
      rideID |-> id,
      pickupLocation |-> in.pickup,
      dropoffLocation |-> in.dropoff,
      distanceMiles |-> in.distance ]

PremiumRide_PremiumRide(id, in) ==
    LET base == Ride_Ride(id, in)
    IN  [ kind |-> base.kind,
          rideID |-> base.rideID,
          pickupLocation |-> base.pickupLocation,
          dropoffLocation |-> base.dropoffLocation,
          distanceMiles |-> base.distanceMiles,
          luxuryMultiplier |->
              IF in.multiplier = NoMultiplier THEN defaultMultiplier ELSE in.multiplier[1] ]

NewRide(id, in) ==
    IF in.kind = "PremiumRide" THEN PremiumRide_PremiumRide(id, in) ELSE Ride_Ride(id, in)

getRideID(r) == r.rideID
getPickup(r) == r.pickupLocation
getDropoff(r) == r.dropoffLocation
getDistance(r) == r.distanceMiles

Ride_fare(r) ==
    LET rawFare == basePerMile * r.distanceMiles
    IN  Max(baseMinimum, rawFare)

(* the booking fee left out *)
StandardRide_fare_noFee(r) ==
    LET raw == perMile * getDistance(r)
    IN  Max(standardMinimum, raw)

StandardRide_fare(r) ==
    LET raw == perMile * getDistance(r)
    IN  Max(standardMinimum, raw + bookingFee)

(* the minimum fare left out *)
PremiumRide_fare_noFloor(r) ==
    LET raw == premiumPerMile * getDistance(r) * r.luxuryMultiplier
    IN  raw + surge

PremiumRide_fare(r) ==
    LET raw == premiumPerMile * getDistance(r) * r.luxuryMultiplier
    IN  Max(premiumMinimum, raw + surge)

(* virtual dispatch on the dynamic type *)
fare(r) ==
    CASE r.kind = "StandardRide" -> StandardRide_fare(r)
      [] r.kind = "PremiumRide"  -> PremiumRide_fare(r)
      [] OTHER                   -> Ride_fare(r)

Ride_rideDetails(r, prefix) ==
    [ prefix |-> prefix,
      rideID |-> r.rideID,
      from |-> r.pickupLocation,
      to |-> r.dropoffLocation,
      distance |-> r.distanceMiles,
      fare |-> fare(r) ]

rideDetails(r) ==
    CASE r.kind = "StandardRide" -> Ride_rideDetails(r, "[Standard] ")
      [] r.kind = "PremiumRide"  -> Ride_rideDetails(r, "[Premium]  ")
      [] OTHER                   -> Ride_rideDetails(r, "")

-----------------------------------------------------------------------------
(* The loops of Driver::getDriverInfo and Rider::viewRides *)

(* a ride that is assigned twice counted once *)
sumEarnings_distinct(heap, v, totalEarnings) ==
    LET held == {v[i] : i \in 1 .. Len(v)} \ {NullRide}
        acc[k \in 0 .. Len(heap)] ==
            IF k = 0 THEN totalEarnings
            ELSE acc[k - 1] + (IF k \in held THEN fare(heap[k]) ELSE 0)
    IN  acc[Len(heap)]

RECURSIVE sumEarnings(_, _, _)
sumEarnings(heap, v, totalEarnings) ==
    IF v = << >> THEN totalEarnings
    ELSE sumEarnings(heap, Tail(v),
                     IF Head(v) # NullRide
                     THEN totalEarnings + fare(heap[Head(v)])
                     ELSE totalEarnings)

RECURSIVE printedRides(_, _)
printedRides(heap, v) ==
    IF v = << >> THEN << >>
    ELSE (IF Head(v) # NullRide THEN <<rideDetails(heap[Head(v)])>> ELSE << >>)
         \o printedRides(heap, Tail(v))

-----------------------------------------------------------------------------
(* State *)

Refs == 0 .. Len(rides)          \* the null pointer and every live ride

RECURSIVE SumLen(_, _)
SumLen(f, S) ==
    IF S = {} THEN 0
    ELSE LET x == CHOOSE y \in S : TRUE IN Len(f[x]) + SumLen(f, S \ {x})

Entries == SumLen(assignedRides, Drivers) + SumLen(requestedRides, Riders)

NoOutput == [op |-> "none"]

Init ==
    /\ nextID = nextID_init
    /\ rides = << >>
    /\ allRides = << >>
    /\ assignedRides = [d \in Drivers |-> << >>]
    /\ requestedRides = [x \in Riders |-> << >>]
    /\ out = NoOutput
    /\ addLog = [d \in Drivers |-> << >>]
    /\ reqLog = [x \in Riders |-> << >>]

-----------------------------------------------------------------------------
(* Operations.  `out` records the call; for clearAssignedRides it also     *)
(* keeps, as history, the references the call dropped.                     *)

(* auto r = std::make_shared<...>(...); allRides.push_back(r); *)
CreateRide(in) ==
    /\ rides' = Append(rides, NewRide(nextID, in))
    /\ nextID' = nextID + 1
    /\ allRides' = push_back(allRides, Len(rides) + 1)
    /\ out' = [op |-> "create", ride |-> Len(rides) + 1, in |-> in]
    /\ UNCHANGED <<assignedRides, requestedRides, addLog, reqLog>>

(* Driver::addRide *)
addRide(d, ride) ==
    /\ Entries < MaxEntries
    /\ assignedRides' = [assignedRides EXCEPT ![d] = push_back(@, ride)]
    /\ addLog' = [addLog EXCEPT ![d] = Append(@, ride)]
    /\ out' = [op |-> "addRide", driver |-> d, ride |-> ride]
    /\ UNCHANGED <<nextID, rides, allRides, requestedRides, reqLog>>

(* a clear that empties every driver's list *)
clearAssignedRides_all(d) ==
    /\ assignedRides' = [e \in Drivers |-> << >>]
    /\ addLog' = [addLog EXCEPT ![d] = << >>]
    /\ out' = [op |-> "clearAssignedRides", driver |-> d, dropped |-> assignedRides[d]]
    /\ UNCHANGED <<nextID, rides, allRides, requestedRides, reqLog>>

(* Driver::clearAssignedRides *)
clearAssignedRides(d) ==
    /\ assignedRides' = [assignedRides EXCEPT ![d] = clear(@)]
    /\ addLog' = [addLog EXCEPT ![d] = << >>]
    /\ out' = [op |-> "clearAssignedRides", driver |-> d, dropped |-> assignedRides[d]]
    /\ UNCHANGED <<nextID, rides, allRides, requestedRides, reqLog>>

(* a request stored at the front of the history *)
requestRide_front(x, ride) ==
    /\ Entries < MaxEntries
    /\ requestedRides' = [requestedRides EXCEPT ![x] = <<ride>> \o @]
    /\ reqLog' = [reqLog EXCEPT ![x] = Append(@, ride)]
    /\ out' = [op |-> "requestRide", rider |-> x, ride |-> ride]
    /\ UNCHANGED <<nextID, rides, allRides, assignedRides, addLog>>

(* Rider::requestRide *)
requestRide(x, ride) ==
    /\ Entries < MaxEntries
    /\ requestedRides' = [requestedRides EXCEPT ![x] = push_back(@, ride)]
    /\ reqLog' = [reqLog EXCEPT ![x] = Append(@, ride)]
    /\ out' = [op |-> "requestRide", rider |-> x, ride |-> ride]
    /\ UNCHANGED <<nextID, rides, allRides, assignedRides, addLog>>

(* r->fare() *)
queryFare(ride) ==
    /\ out' = [op |-> "fare", ride |-> ride, fare |-> fare(rides[ride])]
    /\ UNCHANGED <<nextID, rides, allRides, assignedRides, requestedRides, addLog, reqLog>>

(* r->rideDetails() *)
queryRideDetails(ride) ==
    /\ out' = [op |-> "rideDetails", ride |-> ride, line |-> rideDetails(rides[ride])]
    /\ UNCHANGED <<nextID, rides, allRides, assignedRides, requestedRides, addLog, reqLog>>

(* Driver::getAssignedCount *)
getAssignedCount(d) ==
    /\ out' = [op |-> "getAssignedCount", driver |-> d, count |-> size(assignedRides[d])]
    /\ UNCHANGED <<nextID, rides, allRides, assignedRides, requestedRides, addLog, reqLog>>

(* a summary that settles the driver's rides once they are reported *)
getDriverInfo_settle(d) ==
    /\ out' = [op |-> "getDriverInfo", driver |-> d,
               count |-> size(assignedRides[d]),
               lines |-> printedRides(rides, assignedRides[d]),
               totalEarnings |-> sumEarnings(rides, assignedRides[d], 0)]
    /\ assignedRides' = [assignedRides EXCEPT ![d] = << >>]
    /\ UNCHANGED <<nextID, rides, allRides, requestedRides, addLog, reqLog>>

(* Driver::getDriverInfo *)
getDriverInfo(d) ==
    /\ out' = [op |-> "getDriverInfo", driver |-> d,
               count |-> size(assignedRides[d]),
               lines |-> printedRides(rides, assignedRides[d]),
               totalEarnings |-> sumEarnings(rides, assignedRides[d], 0)]
    /\ UNCHANGED <<nextID, rides, allRides, assignedRides, requestedRides, addLog, reqLog>>

(* Rider::viewRides *)
viewRides(x) ==
    /\ out' = [op |-> "viewRides", rider |-> x,
               count |-> size(requestedRides[x]),
               lines |-> printedRides(rides, requestedRides[x])]
    /\ UNCHANGED <<nextID, rides, allRides, assignedRides, requestedRides, addLog, reqLog>>

-----------------------------------------------------------------------------
(* The system: any mix of constructions, associations and queries *)

Next ==
    \/ \E in \in RideInputs : Len(rides) < MaxRides /\ CreateRide(in)
    \/ \E d \in Drivers, ride \in Refs : addRide(d, ride)
    \/ \E d \in Drivers : clearAssignedRides(d)
    \/ \E x \in Riders, ride \in Refs : requestRide(x, ride)
    \/ \E ride \in Refs \ {NullRide} : queryFare(ride)
    \/ \E ride \in Refs \ {NullRide} : queryRideDetails(ride)
    \/ \E d \in Drivers : getAssignedCount(d)
    \/ \E d \in Drivers : getDriverInfo(d)
    \/ \E x \in Riders : viewRides(x)

Spec == Init /\ [][Next]_vars

(* The fare function: the first ride of a run is built from any of the     *)
(* FareInputs, handed to drivers and queried.                              *)
FareNext ==
    \/ \E in \in FareInputs : nextID = nextID_init /\ CreateRide(in)
    \/ \E d \in Drivers, ride \in Refs : addRide(d, ride)
    \/ \E ride \in Refs \ {NullRide} : queryFare(ride)
    \/ \E ride \in Refs \ {NullRide} : queryRideDetails(ride)
    \/ \E d \in Drivers : getDriverInfo(d)

FareSpec == Init /\ [][FareNext]_vars

-----------------------------------------------------------------------------
(* Vocabulary of the properties *)

Live == 1 .. Len(rides)

IsPrefix(s, t) == Len(s) <= Len(t) /\ SubSeq(t, 1, Len(s)) = s

Occurrences(v, e) == Cardinality({i \in 1 .. Len(v) : v[i] = e})

HasNull(v) == \E i \in 1 .. Len(v) : v[i] = NullRide

(* f is the larger of a and b, said without the model's Max *)
IsMaxOf(f, a, b) == f >= a /\ f >= b /\ (f = a \/ f = b)

(* sum of fare over the rides of v, each times the number of its occurrences *)
FareOfHeld(v) ==
    LET acc[k \in 0 .. Len(rides)] ==
            IF k = 0 THEN 0 ELSE acc[k - 1] + Occurrences(v, k) * fare(rides[k])
    IN  acc[Len(rides)]

(* sum of the fares printed on the lines of a summary *)
FareOfLines(lines) ==
    LET acc[k \in 0 .. Len(lines)] ==
            IF k = 0 THEN 0 ELSE acc[k - 1] + lines[k].fare
    IN  acc[Len(lines)]

QueryOps == {"fare", "rideDetails", "getAssignedCount", "getDriverInfo", "viewRides"}

(* the variant's formula of the specification, in mills, from a distance   *)
(* in tenths of a mile and a multiplier in tenths                          *)
MatchesFormula(f, kind, d, m) ==
    CASE kind = "Ride"         -> IsMaxOf(f, 2000, 100 * d)
      [] kind = "StandardRide" -> IsMaxOf(f, 3000, 150 * d + 1000)
      [] kind = "PremiumRide"  -> IsMaxOf(f, 10000, 25 * d * m + 2000)

FloorOf(kind) ==
    CASE kind = "Ride"         -> 2000
      [] kind = "StandardRide" -> 3000
      [] kind = "PremiumRide"  -> 10000

-----------------------------------------------------------------------------
(* C1: the k-th ride constructed has id k, whatever its variant and        *)
(* whatever driver and rider operations happen in between; the first id    *)
(* is 1, ids go up by exactly 1 and no two rides share an id.              *)
C1_SequentialIds ==
    /\ \A k \in Live : getRideID(rides[k]) = k
    /\ \A i \in Live, j \in Live : i # j => getRideID(rides[i]) # getRideID(rides[j])
    /\ \A k \in Live : k > 1 => getRideID(rides[k]) = getRideID(rides[k - 1]) + 1

(* a second ride of another variant made after a driver was given the first *)
C1_Witness ==
    /\ out.op = "create" /\ out.ride = 2
    /\ rides[1].kind # rides[2].kind
    /\ \E d \in Drivers : assignedRides[d] = <<1>>

(* C2: for a distance >= 0 (and a multiplier >= 0) fare() is the variant's *)
(* formula: Base max(2.00, 1.00 d), Standard max(3.00, 1.50 d + 1.00),     *)
(* Premium max(10.00, 2.50 d m + 2.00), m being 2.0 when the ride was      *)
(* constructed without a multiplier.                                       *)
C2_FareMatchesFormula ==
    /\ out.op = "fare" =>
         LET r == rides[out.ride]
             m == IF r.kind = "PremiumRide" THEN r.luxuryMultiplier ELSE 0
         IN  (getDistance(r) >= 0 /\ m >= 0) =>
                 MatchesFormula(out.fare, r.kind, getDistance(r), m)
    /\ out.op = "create" =>
         LET m == IF out.in.multiplier = NoMultiplier THEN 20 ELSE out.in.multiplier[1]
         IN  (out.in.distance >= 0 /\ m >= 0) =>
                 MatchesFormula(fare(rides[out.ride]), out.in.kind, out.in.distance, m)

(* main's r4: a Premium ride of 12.0 miles at the default multiplier costs 62.00 *)
C2_Witness ==
    /\ out.op = "fare"
    /\ rides[out.ride].kind = "PremiumRide"
    /\ getDistance(rides[out.ride]) = 120
    /\ out.fare = 62000

(* C3, as stated: no ride with a negative distance is ever observable.     *)
C3_NegativeDistanceRejected ==
    \A k \in Live : getDistance(rides[k]) >= 0

(* C3, amended: constructing a ride with a negative distance succeeds; the *)
(* ride gets the next id and keeps the distance as given, the counter goes *)
(* up by one, the ride is registered, and no ride that exists and no       *)
(* driver or rider collection changes.                                     *)
C3_NegativeDistanceAccepted ==
    [][ (out'.op = "create" /\ out'.in.distance < 0 /\ rides' # rides) =>
           /\ Len(rides') = Len(rides) + 1
           /\ out'.ride = Len(rides')
           /\ getRideID(rides'[out'.ride]) = nextID
           /\ getDistance(rides'[out'.ride]) = out'.in.distance
           /\ nextID' = nextID + 1
           /\ SubSeq(rides', 1, Len(rides)) = rides
           /\ allRides' = Append(allRides, out'.ride)
           /\ assignedRides' = assignedRides
           /\ requestedRides' = requestedRides ]_vars

(* a ride with a negative distance was handed to a driver *)
C3_Witness ==
    /\ out.op = "addRide"
    /\ out.ride # NullRide
    /\ getDistance(rides[out.ride]) < 0
    /\ \E i \in 1 .. Len(assignedRides[out.driver]) : assignedRides[out.driver][i] = out.ride

(* C4: the total of getDriverInfo is the sum of fare() over the non-null   *)
(* rides now in the driver's assignedRides, once per occurrence, in any    *)
(* order; addRide makes it grow by the ride's fare (by nothing for a null  *)
(* entry), clearAssignedRides makes it 0, and Standard rides of 18.4 and   *)
(* 4.5 miles give 36.35.                                                   *)
C4_TotalNow ==
    out.op = "getDriverInfo" =>
        /\ out.totalEarnings = FareOfHeld(assignedRides[out.driver])
        /\ (/\ Len(out.lines) = 2
            /\ \A i \in 1 .. 2 : out.lines[i].prefix = "[Standard] "
            /\ {out.lines[1].distance, out.lines[2].distance} = {184, 45})
           => out.totalEarnings = 36350

C4_TotalStep ==
    /\ out'.op = "addRide" =>
         sumEarnings(rides', assignedRides'[out'.driver], 0)
           = sumEarnings(rides, assignedRides[out'.driver], 0)
             + (IF out'.ride = NullRide THEN 0 ELSE fare(rides[out'.ride]))
    /\ out'.op = "clearAssignedRides" =>
         sumEarnings(rides', assignedRides'[out'.driver], 0) = 0

C4_TotalEarnings == [] C4_TotalNow /\ [][C4_TotalStep]_vars

(* the summary of a driver holding the 4.5 mile ride, then the 18.4 mile one *)
C4_Witness ==
    /\ out.op = "getDriverInfo"
    /\ out.count = 2
    /\ Len(out.lines) = 2
    /\ out.lines[1].distance = 45 /\ out.lines[2].distance = 184
    /\ out.totalEarnings = 36350

(* C5: assignedRides is the sequence of the rides added since the driver   *)
(* was created or last cleared, in call order, repeated additions kept,    *)
(* and getAssignedCount() is the number of those additions.                *)
C5_CountsAdditions ==
    /\ \A d \in Drivers : assignedRides[d] = addLog[d]
    /\ out.op = "getAssignedCount" => out.count = Len(addLog[out.driver])

(* the same ride added twice is counted twice *)
C5_Witness ==
    /\ out.op = "getAssignedCount"
    /\ out.count = 2
    /\ addLog[out.driver] = <<1, 1>>

(* C6: clearAssignedRides leaves the driver with no assigned ride and      *)
(* changes nothing else: not a ride, not another driver's list, not a      *)
(* rider's list, not the registry, not the id counter.                     *)
C6_ClearFrame ==
    [][ out'.op = "clearAssignedRides" =>
           /\ size(assignedRides'[out'.driver]) = 0
           /\ \A e \in Drivers \ {out'.driver} : assignedRides'[e] = assignedRides[e]
           /\ requestedRides' = requestedRides
           /\ rides' = rides
           /\ \A k \in Live : fare(rides'[k]) = fare(rides[k])
           /\ allRides' = allRides
           /\ nextID' = nextID ]_vars

(* a dropped ride is still held by the other driver and by the registry *)
C6_Witness ==
    /\ out.op = "clearAssignedRides"
    /\ \E i \in 1 .. Len(out.dropped) :
         /\ out.dropped[i] # NullRide
         /\ \E e \in Drivers \ {out.driver} : Occurrences(assignedRides[e], out.dropped[i]) > 0
         /\ Occurrences(allRides, out.dropped[i]) > 0

(* C7: requestedRides is the sequence of the rides passed to requestRide,  *)
(* in call order with duplicates kept, and every step keeps its old value  *)
(* as a prefix of the new one.                                             *)
C7_RequestedIsLog == \A x \in Riders : requestedRides[x] = reqLog[x]

C7_AppendOnly ==
    [] C7_RequestedIsLog
    /\ [][\A x \in Riders : IsPrefix(requestedRides[x], requestedRides'[x])]_vars

(* a driver's clear with a rider's history of a ride and a null in place *)
C7_Witness ==
    /\ out.op = "clearAssignedRides"
    /\ \E x \in Riders : requestedRides[x] = <<2, NullRide>>

(* C8: the queries change nothing but the output, and a ride's id,         *)
(* endpoints, distance, multiplier and fare stay what they were at its     *)
(* creation through every operation.                                       *)
C8_QueriesPure ==
    /\ [][out'.op \in QueryOps => UNCHANGED progVars]_vars
    /\ [][\A k \in Live :
            /\ k <= Len(rides')
            /\ rides'[k] = rides[k]
            /\ getRideID(rides'[k]) = getRideID(rides[k])
            /\ getDistance(rides'[k]) = getDistance(rides[k])
            /\ fare(rides'[k]) = fare(rides[k]) ]_vars

(* a summary of a driver that holds rides, with a rider holding one too *)
C8_Witness ==
    /\ out.op = "getDriverInfo"
    /\ Len(out.lines) > 0
    /\ assignedRides[out.driver] # << >>
    /\ \E x \in Riders : requestedRides[x] # << >>

(* C9: fare() is never below the variant's floor, also for a negative      *)
(* distance or a negative multiplier; a driver's total is never negative   *)
(* and adding a non-null ride never lowers it.                             *)
C9_FloorNow ==
    /\ \A k \in Live : fare(rides[k]) >= FloorOf(rides[k].kind)
    /\ out.op = "fare" => out.fare >= FloorOf(rides[out.ride].kind)
    /\ out.op = "getDriverInfo" => out.totalEarnings >= 0

C9_FloorStep ==
    (out'.op = "addRide" /\ out'.ride # NullRide) =>
        sumEarnings(rides', assignedRides'[out'.driver], 0)
          >= sumEarnings(rides, assignedRides[out'.driver], 0)

C9_FareFloor == [] C9_FloorNow /\ [][C9_FloorStep]_vars

(* the summary of a driver holding a Premium ride whose raw fare is negative *)
C9_Witness ==
    /\ out.op = "getDriverInfo"
    /\ Len(out.lines) = 1
    /\ rides[1].kind = "PremiumRide"
    /\ rides[1].luxuryMultiplier < 0
    /\ getDistance(rides[1]) > 0
    /\ out.totalEarnings = 10000

(* C10: a null reference is stored like any other, so the counts of        *)
(* getAssignedCount, getDriverInfo and viewRides include the null entries  *)
(* while the rides described and the earnings summed leave them out; the   *)
(* count is the number of rides described exactly when no entry is null.   *)
C10_NullCounted ==
    /\ out.op = "getAssignedCount" =>
         out.count = Occurrences(assignedRides[out.driver], NullRide)
                     + Cardinality({i \in 1 .. Len(assignedRides[out.driver]) :
                                       assignedRides[out.driver][i] # NullRide})
    /\ out.op = "getDriverInfo" =>
         /\ out.count = Len(assignedRides[out.driver])
         /\ Len(out.lines) = out.count - Occurrences(assignedRides[out.driver], NullRide)
         /\ out.totalEarnings = FareOfLines(out.lines)
         /\ (out.count = Len(out.lines)) <=> ~HasNull(assignedRides[out.driver])
    /\ out.op = "viewRides" =>
         /\ out.count = Len(requestedRides[out.rider])
         /\ Len(out.lines) = out.count - Occurrences(requestedRides[out.rider], NullRide)
         /\ (out.count = Len(out.lines)) <=> ~HasNull(requestedRides[out.rider])

(* a summary that counts two entries and describes one ride *)
C10_Witness ==
    /\ out.op = "getDriverInfo"
    /\ HasNull(assignedRides[out.driver])
    /\ out.count = 2
    /\ Len(out.lines) = 1
    /\ out.totalEarnings = out.lines[1].fare

====
